---- MODULE Spec2Model ----
(***************************************************************************)
(* A model of libcmd (src/libcmd.go): the package-level configuration and  *)
(* client, InitCmdContainer, NewCmd, and Cmd.Run driving the container      *)
(* runtime through create, start, inspect, logs and remove.                *)
(*                                                                         *)
(* Go strings that name things (configuration values, image references,    *)
(* command lines) are TLA+ strings.  Byte slices and the text converted    *)
(* from them are sequences of bytes (0..255).  An error value is the        *)
(* sequence of the words of its message; the nil error is the empty        *)
(* sequence.                                                               *)
(***************************************************************************)
EXTENDS Integers, Sequences, FiniteSets, TLC

VARIABLES
    config,             \* the package variable config (CmdConfig)
    globalDockerClient, \* the package variable globalDockerClient
    lastOpts,           \* the options map of the last InitCmdContainer call
    process,            \* "running", or "fatal" after log.Fatal
    images,             \* runtime: image references pulled so far
    containers,         \* runtime: id -> [image, cmd, state]
    cmds,               \* caller -> the Cmd built by NewCmd (or NoCmd)
    pc,                 \* caller -> position inside Run
    runArgs,            \* caller -> the args of the current Run call
    container,          \* caller -> Run's local container.ID (0: none)
    calls,              \* caller -> the runtime calls of the current Run
    slept,              \* caller -> nanoseconds of the last time.Sleep
    wire,               \* caller -> what the logs transport delivered
    request,            \* caller -> what makeRequest returned
    ret                 \* caller -> what Run returned

vars == <<config, globalDockerClient, lastOpts, process, images, containers,
          cmds, pc, runArgs, container, calls, slept, wire, request, ret>>

----------------------------------------------------------------------------
(* Bounds of the model *)

MaxInits == 2
MaxIds == 1
MaxPolls == 2
MaxFrames == 3

\* the callers of Run: the goroutines of the program that call it, and
\* the one that works alone in the sequential specifications
Callers == {"main", "other"}
MainCaller == {"main"}

----------------------------------------------------------------------------
(* Errors *)

NoErr == << >>

ErrCommandResponse == <<"error", "running", "command">>

\* docker.ErrConnectionRefused of go-dockerclient, named at line 208
ErrConnectionRefused == <<"cannot", "connect", "to", "Docker", "endpoint">>

\* errors the runtime client's calls can come back with
ErrCreate == <<"no", "such", "image">>
ErrStart == <<"API", "error", "(500):", "cannot", "start">>
ErrInspect == <<"no", "such", "container">>

\* errors net.Dial and ClientConn.Do can come back with
ErrDialRefused == <<"dial", "unix", "/var/run/docker.sock:", "connect:",
                    "connection refused">>
ErrDialNoSocket == <<"dial", "unix", "/var/run/docker.sock:", "connect:",
                     "no such file or directory">>
ErrDoRefused == <<"read", "unix:", "connection refused">>
ErrDoEOF == <<"unexpected", "EOF">>

DialErrors == {ErrDialRefused, ErrDialNoSocket}
DoErrors == {ErrDoRefused, ErrDoEOF}

\* strings.Contains(err.Error(), s)
Contains(err, s) == \E i \in DOMAIN err : err[i] = s

----------------------------------------------------------------------------
(* The combined log stream: frames on the wire *)

StdoutStream == 1
StderrStream == 2
HeaderLen == 8

\* a 4-byte big-endian unsigned integer
BE32(n) == <<(n \div 16777216) % 256, (n \div 65536) % 256,
             (n \div 256) % 256, n % 256>>

\* the bytes the runtime sends for one frame [stream, payload]
EncodeFrame(f) == <<f.stream, 0, 0, 0>> \o BE32(Len(f.payload)) \o f.payload

RECURSIVE EncodeFrames(_)
EncodeFrames(fs) ==
    IF fs = << >> THEN << >>
    ELSE EncodeFrame(Head(fs)) \o EncodeFrames(Tail(fs))

\* the stream with its last k bytes lost
DropLast(s, k) == SubSeq(s, 1, Len(s) - k)

ErrShortFrame == <<"unexpected", "EOF">>
ErrBadStream == <<"unrecognized", "input", "header">>

\* stdCopy(dstout, dsterr, src): read frames from position pos of src until
\* the stream is exhausted, appending each payload to the buffer its
\* discriminator selects; the buffers keep what was written before an error
RECURSIVE StdCopyFrom(_, _, _, _)
StdCopyFrom(src, pos, out, errb) ==
    IF pos > Len(src)
    THEN [stdout |-> out, stderr |-> errb, err |-> NoErr]
    ELSE IF Len(src) - pos + 1 < HeaderLen
    THEN [stdout |-> out, stderr |-> errb, err |-> ErrShortFrame]
    ELSE LET stream == src[pos]
             size == src[pos + 4] * 16777216 + src[pos + 5] * 65536
                     + src[pos + 6] * 256 + src[pos + 7]
             first == pos + HeaderLen
             payload == SubSeq(src, first, first + size - 1)
         IN  IF stream \notin {StdoutStream, StderrStream}
             THEN [stdout |-> out, stderr |-> errb, err |-> ErrBadStream]
             ELSE IF Len(src) - first + 1 < size
             THEN [stdout |-> out, stderr |-> errb, err |-> ErrShortFrame]
             ELSE IF stream = StdoutStream
             THEN StdCopyFrom(src, first + size, out \o payload, errb)
             ELSE StdCopyFrom(src, first + size, out, errb \o payload)

stdCopy(src) == StdCopyFrom(src, 1, << >>, << >>)

----------------------------------------------------------------------------
(* makeRequest and getLogs *)

\* a slip: the two buffers returned in each other's place
DemuxedSwapped(c, status) ==
    IF c.err # NoErr
    THEN [stdout |-> << >>, stderr |-> << >>, status |-> -1, err |-> c.err]
    ELSE [stdout |-> c.stderr, stderr |-> c.stdout, status |-> status,
          err |-> NoErr]

\* a slip: the buffers filled so far returned along with the error
DemuxedPartial(c, status) ==
    [stdout |-> c.stdout, stderr |-> c.stderr,
     status |-> IF c.err # NoErr THEN -1 ELSE status, err |-> c.err]

\* what makeRequest returns once stdCopy has run with result c on a
\* response of the given status (lines 212-218)
Demuxed(c, status) ==
    IF c.err # NoErr
    THEN [stdout |-> << >>, stderr |-> << >>, status |-> -1, err |-> c.err]
    ELSE [stdout |-> c.stdout, stderr |-> c.stderr, status |-> status,
          err |-> NoErr]

\* makeRequest(method, path) against a transport t that answers with
\* [dialErr, doErr, status, body].  http.NewRequest cannot fail on the path
\* getLogs builds, so its error branch (lines 188-191) is not reachable.
makeRequest(t) ==
    IF t.dialErr # NoErr
    THEN [stdout |-> << >>, stderr |-> << >>, status |-> -1, err |-> t.dialErr]
    ELSE IF t.doErr # NoErr
    THEN [stdout |-> << >>, stderr |-> << >>, status |-> -1, err |-> t.doErr]
    ELSE IF t.doErr # NoErr   \* line 206 tests the same err again
    THEN IF Contains(t.doErr, "connection refused")
         THEN [stdout |-> << >>, stderr |-> << >>, status |-> -1,
               err |-> ErrConnectionRefused]
         ELSE [stdout |-> << >>, stderr |-> << >>, status |-> -1,
               err |-> t.doErr]
    ELSE Demuxed(stdCopy(t.body), t.status)

\* a slip: the stderr buffer returned on success
getLogsStderr(r) ==
    IF r.err # NoErr
    THEN [logs |-> << >>, err |-> r.err]
    ELSE IF Len(r.stderr) # 0
    THEN [logs |-> r.stderr, err |-> ErrCommandResponse]
    ELSE [logs |-> r.stderr, err |-> NoErr]

\* getLogs(client, containerId) given makeRequest's result r
getLogs(r) ==
    IF r.err # NoErr
    THEN [logs |-> << >>, err |-> r.err]
    ELSE IF Len(r.stderr) # 0
    THEN [logs |-> r.stderr, err |-> ErrCommandResponse]
    ELSE [logs |-> r.stdout, err |-> NoErr]

----------------------------------------------------------------------------
(* Configuration *)

cmdConfigDefaultOpts ==
    [CommandsDir |-> "/root/commands",
     DockerEndpoint |-> "unix:///var/run/docker.sock",
     ContainerRepository |-> "freighterio/cmd",
     ContainerTag |-> "latest"]

ConfigKeys == DOMAIN cmdConfigDefaultOpts

\* CmdConfig{}: every field the empty string
ZeroConfig == [key \in ConfigKeys |-> ""]

\* a slip: a missing key leaves the field of CmdConfig{} as it is
ConfigFromOptsNoDefault(opts) ==
    [key \in ConfigKeys |-> IF key \in DOMAIN opts THEN opts[key] ELSE ""]

\* the loop of InitCmdContainer (lines 48-56)
ConfigFromOpts(opts) ==
    [key \in ConfigKeys |->
        IF key \in DOMAIN opts THEN opts[key] ELSE cmdConfigDefaultOpts[key]]

\* the nil *docker.Client, and the client docker.NewClient builds
NilClient == [gen |-> 0, endpoint |-> ""]
NewClient(gen, endpoint) == [gen |-> gen, endpoint |-> endpoint]

\* docker.NewClient fails on an endpoint it cannot parse
ValidEndpoint(e) ==
    e \in {"unix:///var/run/docker.sock", "tcp://127.0.0.1:2375"}

\* fmt.Sprintf("%s:%s", repository, tag)
ImageRef(repository, tag) == repository \o ":" \o tag

\* option maps a caller may pass: keys of the configuration and one other
OptionKeys == ConfigKeys \cup {"Verbose"}

OptionValues(key) ==
    CASE key = "CommandsDir" -> {"/opt/cmds"}
      [] key = "DockerEndpoint" -> {"tcp://127.0.0.1:2375", "//:bad"}
      [] key = "ContainerRepository" -> {"acme/tools"}
      [] key = "ContainerTag" -> {"v2"}
      [] OTHER -> {"1"}

AllOptions ==
    UNION {{m \in [ks -> UNION {OptionValues(k) : k \in ks}] :
                \A k \in ks : m[k] \in OptionValues(k)} : ks \in SUBSET OptionKeys}

NoOpts == [k \in {} |-> ""]

\* the option maps the callers of the lifecycle model use
CallerOptions ==
    {NoOpts,
     [ContainerTag |-> "v2", Verbose |-> "1"],
     [DockerEndpoint |-> "//:bad"]}

\* a slip: the error logged and InitCmdContainer returning
FatalLogged == "running"

\* log.Fatal (lines 60 and 64): the process exits
Fatal == "fatal"

\* InitCmdContainer(opts); pullOk is whether client.PullImage succeeds
InitCmdContainer(opts, pullOk) ==
    LET cfg == ConfigFromOpts(opts)
        gen == globalDockerClient.gen + 1
    IN  /\ process = "running"
        /\ gen <= MaxInits
        /\ config' = cfg
        /\ lastOpts' = opts
        /\ IF ~ValidEndpoint(cfg.DockerEndpoint)
           THEN /\ process' = Fatal
                /\ UNCHANGED <<globalDockerClient, images>>
           ELSE /\ globalDockerClient' = NewClient(gen, cfg.DockerEndpoint)
                /\ IF pullOk
                   THEN /\ images' = images \cup
                               {ImageRef(cfg.ContainerRepository, cfg.ContainerTag)}
                        /\ UNCHANGED process
                   ELSE /\ process' = Fatal
                        /\ UNCHANGED images
        /\ UNCHANGED <<containers, cmds, pc, runArgs, container, calls,
                       slept, wire, request, ret>>

----------------------------------------------------------------------------
(* Operations *)

NoCmd == [op |-> "", dockerClient |-> NilClient, built |-> FALSE]

Ops == {"hello", "boom", "mixed"}

ArgLists == {<< >>, <<"b", "a">>}

\* NewCmd(op) by caller p
NewCmd(p, op) ==
    /\ process = "running"
    /\ pc[p] = "idle"
    /\ cmds' = [cmds EXCEPT ![p] =
                    [op |-> op, dockerClient |-> globalDockerClient,
                     built |-> TRUE]]
    /\ UNCHANGED <<config, globalDockerClient, lastOpts, process, images,
                   containers, pc, runArgs, container, calls, slept, wire,
                   request, ret>>

\* what the scripts of the image write: the frames of their combined log
Hello == <<104, 101, 108, 108, 111>>
Boom == <<98, 111, 111, 109>>

ScriptFrames(op) ==
    CASE op = "hello" -> <<[stream |-> StdoutStream, payload |-> Hello]>>
      [] op = "boom" -> <<[stream |-> StderrStream, payload |-> Boom]>>
      [] op = "quiet" -> << >>
      [] OTHER -> <<[stream |-> StdoutStream, payload |-> <<65>>],
                    [stream |-> StderrStream, payload |-> <<66>>],
                    [stream |-> StdoutStream, payload |-> <<67>>]>>

\* an answer of the logs endpoint: the frames sent, of which the last
\* `lost` bytes did not arrive
Answer(frames, lost) ==
    [dialErr |-> NoErr, doErr |-> NoErr, status |-> 200, frames |-> frames,
     lost |-> lost, body |-> DropLast(EncodeFrames(frames), lost)]

DialFailure(e) ==
    [dialErr |-> e, doErr |-> NoErr, status |-> 0, frames |-> << >>,
     lost |-> 0, body |-> << >>]

DoFailure(e) ==
    [dialErr |-> NoErr, doErr |-> e, status |-> 0, frames |-> << >>,
     lost |-> 0, body |-> << >>]

NoWire == DialFailure(NoErr)

\* the size on the wire of the last frame of fs (0 when there is none)
LastFrameLen(fs) ==
    IF fs = << >> THEN 0 ELSE Len(EncodeFrame(fs[Len(fs)]))

\* everything the transport can do with the log of frames fs: fail to
\* dial, fail the round trip, or deliver the stream whole or cut inside
\* its last frame
Transports(fs) ==
    {DialFailure(e) : e \in DialErrors}
    \cup {DoFailure(e) : e \in DoErrors}
    \cup {Answer(fs, k) : k \in 0..(IF fs = << >> THEN 0 ELSE LastFrameLen(fs) - 1)}

NoRequest == [stdout |-> << >>, stderr |-> << >>, status |-> 0, err |-> NoErr]
NoRet == [out |-> << >>, err |-> NoErr]

\* time.Time{} as a completion timestamp, and a time after it
NilTime == 0
SomeTime == 1

Millisecond == 1000000
SleepDuration == Millisecond + 100

\* a call of Run to the runtime: through which client, on which container,
\* whether it succeeded, and for an inspect whether it reported completion
Call(name, client, id, ok, fin) ==
    [call |-> name, client |-> client, id |-> id, ok |-> ok, fin |-> fin]

Inspects(p) == {i \in DOMAIN calls[p] : calls[p][i].call = "inspect"}

Removed == [image |-> "", cmd |-> << >>, state |-> "removed",
            finishedAt |-> NilTime]

\* createContainer's docker.Config (lines 129-132)
CreateConfig(repository, tag, cmd) ==
    [image |-> ImageRef(repository, tag), cmd |-> cmd, state |-> "created",
     finishedAt |-> NilTime]

\* a slip: no removeContainer on the way out
ExitPcNoDefer(created) == "done"

\* a slip: the defer registered before the create error is tested
ExitPcAlways(created) == "remove"

\* where a return of Run leads: once the defer of line 80 is registered
\* (the create call succeeded) every return runs removeContainer first
ExitPc(created) == IF created THEN "remove" ELSE "done"

\* a slip: the negation of line 92 left out
PollDoneInverted(finishedAt) == finishedAt = NilTime

\* a slip: the loop never left on a completion timestamp
PollDoneNever(finishedAt) == FALSE

\* a slip: the loop left after its first inspect
PollDoneAlways(finishedAt) == TRUE

\* the test that leaves the poll loop (line 92)
PollDone(finishedAt) == finishedAt # NilTime

\* a slip: Run going through the package's client
RunClientGlobal(c) == globalDockerClient

\* the client Run hands to every call: the one its Cmd holds (c.dockerClient)
RunClient(c) == c.dockerClient

\* a slip: the container id kept where every Run sees the last one created
RunIdShared(p) == Len(containers)

\* the id Run hands to start, inspect, getLogs and removeContainer: its
\* local container.ID
RunId(p) == container[p]

\* a slip: the arguments put before the interpreter and the script
CommandLineArgsFirst(dir, op, args) ==
    args \o <<"bash", dir \o "/" \o op \o ".sh">>

\* the command line Run builds (lines 74-75)
CommandLine(dir, op, args) == <<"bash", dir \o "/" \o op \o ".sh">> \o args

\* Run(args...) up to the return of createContainer (lines 74-80), with a
\* runtime that hands out at most maxIds container ids
\* a slip: Run clearing the configuration it has read
RunConfigCleared == ZeroConfig

\* the configuration after Run has read it at lines 74-76: Run assigns to
\* no package-level variable
RunConfig == config

RunCreateUpTo(p, args, ok, maxIds) ==
    LET c == cmds[p]
        cfg == CreateConfig(config.ContainerRepository, config.ContainerTag,
                            CommandLine(config.CommandsDir, c.op, args))
        id == Len(containers) + 1
    IN  /\ process = "running"
        /\ pc[p] = "idle"
        /\ c.built
        /\ runArgs' = [runArgs EXCEPT ![p] = args]
        /\ UNCHANGED <<slept, wire, request>>
        /\ IF RunClient(c) = NilClient
           THEN \* a method call through the nil client panics
                /\ process' = "panic"
                /\ calls' = [calls EXCEPT ![p] = << >>]
                /\ container' = [container EXCEPT ![p] = 0]
                /\ ret' = [ret EXCEPT ![p] = NoRet]
                /\ UNCHANGED <<containers, pc>>
           ELSE IF ok
           THEN /\ id <= maxIds
                /\ cfg.image \in images
                /\ containers' = Append(containers, cfg)
                /\ container' = [container EXCEPT ![p] = id]
                /\ calls' = [calls EXCEPT ![p] =
                                <<Call("create", RunClient(c), id, TRUE, FALSE)>>]
                /\ ret' = [ret EXCEPT ![p] = NoRet]
                /\ pc' = [pc EXCEPT ![p] = "start"]
                /\ UNCHANGED process
           ELSE /\ container' = [container EXCEPT ![p] = 0]
                /\ calls' = [calls EXCEPT ![p] =
                                <<Call("create", RunClient(c), 0, FALSE, FALSE)>>]
                /\ ret' = [ret EXCEPT ![p] = [out |-> << >>, err |-> ErrCreate]]
                /\ pc' = [pc EXCEPT ![p] = ExitPc(FALSE)]
                /\ UNCHANGED <<containers, process>>
        /\ config' = RunConfig
        /\ UNCHANGED <<globalDockerClient, lastOpts, images, cmds>>

RunCreate(p, args, ok) == RunCreateUpTo(p, args, ok, MaxIds)

\* startContainer (lines 82-84)
RunStart(p, ok) ==
    LET id == RunId(p)
        client == RunClient(cmds[p])
    IN  /\ process = "running"
        /\ pc[p] = "start"
        /\ calls' = [calls EXCEPT ![p] =
                        Append(@, Call("start", client, id, ok, FALSE))]
        /\ IF ok
           THEN /\ id \in DOMAIN containers
                /\ containers[id].state = "created"
                /\ containers' = [containers EXCEPT ![id].state = "running"]
                /\ pc' = [pc EXCEPT ![p] = "inspect"]
                /\ UNCHANGED ret
           ELSE /\ ret' = [ret EXCEPT ![p] = [out |-> << >>, err |-> ErrStart]]
                /\ pc' = [pc EXCEPT ![p] = ExitPc(TRUE)]
                /\ UNCHANGED containers
        /\ UNCHANGED <<config, globalDockerClient, lastOpts, process, images,
                       cmds, runArgs, container, slept, wire, request>>

\* one round of the poll loop up to the sleep (lines 88-94)
RunInspect(p, ok) ==
    LET id == RunId(p)
        finishedAt == containers[id].finishedAt
        call == Call("inspect", RunClient(cmds[p]), id, ok,
                     ok /\ finishedAt # NilTime)
    IN  /\ process = "running"
        /\ pc[p] = "inspect"
        /\ id \in DOMAIN containers
        \* calls keeps the last MaxPolls inspects of the loop: a further one
        \* takes the place of the inspect before it, which reported zero
        /\ calls' = [calls EXCEPT ![p] =
                        IF Cardinality(Inspects(p)) < MaxPolls
                        THEN Append(@, call)
                        ELSE [@ EXCEPT ![Len(@)] = call]]
        /\ IF ~ok
           THEN /\ ret' = [ret EXCEPT ![p] = [out |-> << >>, err |-> ErrInspect]]
                /\ pc' = [pc EXCEPT ![p] = ExitPc(TRUE)]
           ELSE /\ pc' = [pc EXCEPT ![p] =
                            IF PollDone(finishedAt) THEN "logs" ELSE "sleep"]
                /\ UNCHANGED ret
        /\ UNCHANGED <<config, globalDockerClient, lastOpts, process, images,
                       containers, cmds, runArgs, container, slept, wire,
                       request>>

\* time.Sleep(time.Millisecond + 100) (line 95)
RunSleep(p) ==
    /\ process = "running"
    /\ pc[p] = "sleep"
    /\ slept' = [slept EXCEPT ![p] = SleepDuration]
    /\ pc' = [pc EXCEPT ![p] = "inspect"]
    /\ UNCHANGED <<config, globalDockerClient, lastOpts, process, images,
                   containers, cmds, runArgs, container, calls, wire,
                   request, ret>>

\* a slip: every failure of getLogs reported as the command's failure
RunResultMasked(g) ==
    IF g.err # NoErr
    THEN [out |-> << >>, err |-> ErrCommandResponse]
    ELSE [out |-> g.logs, err |-> NoErr]

\* what Run returns from getLogs' result g (lines 98-102)
RunResult(g) ==
    IF g.err # NoErr
    THEN [out |-> << >>, err |-> g.err]
    ELSE [out |-> g.logs, err |-> NoErr]

\* getLogs over transport answer t, and Run's return (lines 98-102)
RunLogsOver(p, t) ==
    LET id == RunId(p)
        r == makeRequest(t)
    IN  /\ process = "running"
        /\ pc[p] = "logs"
        /\ wire' = [wire EXCEPT ![p] = t]
        /\ request' = [request EXCEPT ![p] = r]
        /\ calls' = [calls EXCEPT ![p] =
                        Append(@, Call("logs", RunClient(cmds[p]), id,
                                       r.err = NoErr, FALSE))]
        /\ ret' = [ret EXCEPT ![p] = RunResult(getLogs(r))]
        /\ pc' = [pc EXCEPT ![p] = ExitPc(TRUE)]
        /\ UNCHANGED <<config, globalDockerClient, lastOpts, process, images,
                       containers, cmds, runArgs, container, slept>>

RunLogs(p) ==
    \E t \in Transports(ScriptFrames(cmds[p].op)) : RunLogsOver(p, t)

\* the deferred removeContainer (line 80), whose result Run drops
RunRemove(p, ok) ==
    LET id == RunId(p)
    IN  /\ process = "running"
        /\ pc[p] = "remove"
        /\ calls' = [calls EXCEPT ![p] =
                        Append(@, Call("remove", RunClient(cmds[p]), id, ok,
                                       FALSE))]
        /\ containers' = IF ok /\ id \in DOMAIN containers
                         THEN [containers EXCEPT ![id] = Removed]
                         ELSE containers
        /\ pc' = [pc EXCEPT ![p] = "done"]
        /\ UNCHANGED <<config, globalDockerClient, lastOpts, process, images,
                       cmds, runArgs, container, slept, wire, request, ret>>

\* Run has returned: its caller takes the result and Run's locals are gone
Return(p) ==
    /\ process = "running"
    /\ pc[p] = "done"
    /\ pc' = [pc EXCEPT ![p] = "idle"]
    /\ runArgs' = [runArgs EXCEPT ![p] = << >>]
    /\ container' = [container EXCEPT ![p] = 0]
    /\ calls' = [calls EXCEPT ![p] = << >>]
    /\ slept' = [slept EXCEPT ![p] = 0]
    /\ wire' = [wire EXCEPT ![p] = NoWire]
    /\ request' = [request EXCEPT ![p] = NoRequest]
    /\ ret' = [ret EXCEPT ![p] = NoRet]
    /\ UNCHANGED <<config, globalDockerClient, lastOpts, process, images,
                   containers, cmds>>

\* the runtime: the command of a running container exits
Finish(id) ==
    /\ process = "running"
    /\ id \in DOMAIN containers
    /\ containers[id].state = "running"
    /\ containers[id].finishedAt = NilTime
    /\ containers' = [containers EXCEPT ![id].finishedAt = SomeTime]
    /\ UNCHANGED <<config, globalDockerClient, lastOpts, process, images,
                   cmds, pc, runArgs, container, calls, slept, wire, request,
                   ret>>

----------------------------------------------------------------------------
(* The lifecycle specification *)

Init ==
    /\ config = ZeroConfig
    /\ globalDockerClient = NilClient
    /\ lastOpts = NoOpts
    /\ process = "running"
    /\ images = {}
    /\ containers = << >>
    /\ cmds = [p \in Callers |-> NoCmd]
    /\ pc = [p \in Callers |-> "idle"]
    /\ runArgs = [p \in Callers |-> << >>]
    /\ container = [p \in Callers |-> 0]
    /\ calls = [p \in Callers |-> << >>]
    /\ slept = [p \in Callers |-> 0]
    /\ wire = [p \in Callers |-> NoWire]
    /\ request = [p \in Callers |-> NoRequest]
    /\ ret = [p \in Callers |-> NoRet]

\* no caller is inside Run
Quiescent == \A p \in Callers : pc[p] = "idle"

\* the program calls InitCmdContainer between Run calls
Configure(opts, pullOk) == Quiescent /\ InitCmdContainer(opts, pullOk)

Next ==
    \/ \E opts \in CallerOptions, pullOk \in BOOLEAN : Configure(opts, pullOk)
    \/ \E p \in MainCaller, op \in Ops : NewCmd(p, op)
    \/ \E p \in MainCaller, args \in ArgLists, ok \in BOOLEAN :
            RunCreate(p, args, ok)
    \/ \E p \in MainCaller, ok \in BOOLEAN : RunStart(p, ok)
    \/ \E p \in MainCaller, ok \in BOOLEAN : RunInspect(p, ok)
    \/ \E p \in MainCaller : RunSleep(p)
    \/ \E p \in MainCaller : RunLogs(p)
    \/ \E p \in MainCaller, ok \in BOOLEAN : RunRemove(p, ok)
    \/ \E p \in MainCaller : Return(p)
    \/ \E id \in 1..MaxIds : Finish(id)

Spec == Init /\ [][Next]_vars

----------------------------------------------------------------------------
(* The demultiplexing specification: makeRequest applied to every answer *)
(* of the logs endpoint made of at most MaxFrames frames                  *)

Streams == {StdoutStream, StderrStream, 3}
Payloads == {<<65>>, <<66>>, <<67>>, <<72, 105>>}
Frames == [stream : Streams, payload : Payloads]

\* the transport's answer is a failure, or a stream of at most MaxFrames
\* frames, whole or cut inside its last frame
DemuxInput ==
    \/ \E e \in DialErrors : wire = [p \in Callers |-> DialFailure(e)]
    \/ \E e \in DoErrors : wire = [p \in Callers |-> DoFailure(e)]
    \/ \E n \in 0..MaxFrames : \E fs \in [1..n -> Frames] :
            \E k \in 0..(IF n = 0 THEN 0 ELSE LastFrameLen(fs) - 1) :
                wire = [p \in Callers |-> Answer(fs, k)]

InitDemux ==
    /\ config = ZeroConfig
    /\ globalDockerClient = NilClient
    /\ lastOpts = NoOpts
    /\ process = "running"
    /\ images = {}
    /\ containers = << >>
    /\ cmds = [p \in Callers |-> NoCmd]
    /\ pc = [p \in Callers |-> "demux"]
    /\ runArgs = [p \in Callers |-> << >>]
    /\ container = [p \in Callers |-> 0]
    /\ calls = [p \in Callers |-> << >>]
    /\ slept = [p \in Callers |-> 0]
    /\ DemuxInput
    /\ request = [p \in Callers |-> NoRequest]
    /\ ret = [p \in Callers |-> NoRet]

Demux(p) ==
    /\ pc[p] = "demux"
    /\ request' = [request EXCEPT ![p] = makeRequest(wire[p])]
    /\ pc' = [pc EXCEPT ![p] = "demuxed"]
    /\ UNCHANGED <<config, globalDockerClient, lastOpts, process, images,
                   containers, cmds, runArgs, container, calls, slept, wire,
                   ret>>

NextDemux == \E p \in MainCaller : Demux(p)

SpecDemux == InitDemux /\ [][NextDemux]_vars

----------------------------------------------------------------------------
(* The configuration specification: InitCmdContainer on every option map *)

NextConfig ==
    \E opts \in AllOptions, pullOk \in BOOLEAN : InitCmdContainer(opts, pullOk)

SpecConfig == Init /\ [][NextConfig]_vars

----------------------------------------------------------------------------
(* The concurrent specification: every caller runs on its own, all on the  *)
(* same client and configuration, and InitCmdContainer may come at any     *)
(* time.  The callers use the default options, one operation and no        *)
(* arguments; the runtime has an id for each caller to hold a container.   *)

ConcOps == {"quiet"}
ConcIds == Cardinality(Callers)

NextConc ==
    \/ \E pullOk \in BOOLEAN : InitCmdContainer(NoOpts, pullOk)
    \/ \E p \in Callers, op \in ConcOps : NewCmd(p, op)
    \/ \E p \in Callers, ok \in BOOLEAN : RunCreateUpTo(p, << >>, ok, ConcIds)
    \/ \E p \in Callers, ok \in BOOLEAN : RunStart(p, ok)
    \/ \E p \in Callers, ok \in BOOLEAN : RunInspect(p, ok)
    \/ \E p \in Callers : RunSleep(p)
    \/ \E p \in Callers : RunLogs(p)
    \/ \E p \in Callers, ok \in BOOLEAN : RunRemove(p, ok)
    \/ \E p \in Callers : Return(p)
    \/ \E id \in 1..ConcIds : Finish(id)

SpecConc == Init /\ [][NextConc]_vars

----------------------------------------------------------------------------
(* The fair specification: one caller with the default options, one        *)
(* operation and no arguments.  Every runtime call of a Run returns and    *)
(* every sleep ends, so a Run that can take a step takes one; nothing      *)
(* makes the command in the container exit.                                *)

NextLive ==
    \/ \E pullOk \in BOOLEAN : Configure(NoOpts, pullOk)
    \/ \E p \in MainCaller, op \in ConcOps : NewCmd(p, op)
    \/ \E p \in MainCaller, ok \in BOOLEAN : RunCreate(p, << >>, ok)
    \/ \E p \in MainCaller, ok \in BOOLEAN : RunStart(p, ok)
    \/ \E p \in MainCaller, ok \in BOOLEAN : RunInspect(p, ok)
    \/ \E p \in MainCaller : RunSleep(p)
    \/ \E p \in MainCaller : RunLogs(p)
    \/ \E p \in MainCaller, ok \in BOOLEAN : RunRemove(p, ok)
    \/ \E p \in MainCaller : Return(p)
    \/ \E id \in 1..MaxIds : Finish(id)

\* the next step of caller p's Run after a successful create
RunStep(p) ==
    \/ \E ok \in BOOLEAN : RunStart(p, ok)
    \/ \E ok \in BOOLEAN : RunInspect(p, ok)
    \/ RunSleep(p)
    \/ RunLogs(p)
    \/ \E ok \in BOOLEAN : RunRemove(p, ok)

Fairness == \A p \in MainCaller : WF_vars(RunStep(p))

SpecLive == Init /\ [][NextLive]_vars /\ Fairness

----------------------------------------------------------------------------
(* Properties *)

\* the positions in the calls of caller p's Run of the calls named name
CallsNamed(p, name) == {i \in DOMAIN calls[p] : calls[p][i].call = name}

\* Run of caller p got its container: the create call succeeded
Created(p) == calls[p] # << >> /\ calls[p][1].call = "create" /\ calls[p][1].ok

\* the create call of caller p's Run failed
CreateFailed(p) ==
    calls[p] # << >> /\ calls[p][1].call = "create" /\ ~calls[p][1].ok

\* the payloads of the frames of one stream, concatenated in order
RECURSIVE PayloadsOf(_, _)
PayloadsOf(fs, stream) ==
    IF fs = << >> THEN << >>
    ELSE (IF Head(fs).stream = stream THEN Head(fs).payload ELSE << >>)
         \o PayloadsOf(Tail(fs), stream)

\* the transport delivered an answer (no dial or round-trip failure)
Delivered(t) == t.dialErr = NoErr /\ t.doErr = NoErr

\* every frame sent is a stdout or stderr frame and all bytes arrived
WellFormed(t) ==
    /\ Delivered(t)
    /\ t.lost = 0
    /\ \A i \in DOMAIN t.frames :
            t.frames[i].stream \in {StdoutStream, StderrStream}

\* C1: once the create call of a Run succeeded, removeContainer is called
\* exactly once, on the id create returned, before Run returns, whatever
\* the exit path; it is not called while Run is still working.
RemovedExactlyOnce ==
    \A p \in Callers :
        Created(p) =>
            /\ pc[p] = "done" =>
                  /\ Cardinality(CallsNamed(p, "remove")) = 1
                  /\ \A i \in CallsNamed(p, "remove") :
                        /\ calls[p][i].id = calls[p][1].id
                        /\ i = Len(calls[p])
            /\ pc[p] \in {"start", "inspect", "sleep", "logs", "remove"} =>
                  CallsNamed(p, "remove") = {}

\* a Run whose start call failed has returned
StartFailureRemoved ==
    \E p \in Callers :
        /\ pc[p] = "done"
        /\ Created(p)
        /\ ret[p].err = ErrStart
        /\ Cardinality(CallsNamed(p, "remove")) = 1

\* C2: when the create call fails Run returns that error at once with
\* empty output, having made no other runtime call.
CreateFailureReturnsAtOnce ==
    \A p \in Callers :
        CreateFailed(p) =>
            /\ pc[p] = "done"
            /\ Len(calls[p]) = 1
            /\ container[p] = 0
            /\ ret[p] = [out |-> << >>, err |-> ErrCreate]

CreateFailureSeen == \E p \in Callers : CreateFailed(p) /\ pc[p] = "done"

\* the log retrieval of caller p's Run succeeded
LogsRetrieved(p) ==
    /\ pc[p] \in {"remove", "done"}
    /\ CallsNamed(p, "logs") # {}
    /\ request[p].err = NoErr

\* C3: when the log retrieval succeeds and the stderr buffer is not empty,
\* Run returns the stderr text together with ErrCommandResponse.
StderrTextReturned ==
    \A p \in Callers :
        LogsRetrieved(p) /\ request[p].stderr # << >> =>
            ret[p] = [out |-> request[p].stderr, err |-> ErrCommandResponse]

\* C4: when the log retrieval succeeds and the stderr buffer is empty, Run
\* returns the stdout text, which is the payloads of the stdout frames the
\* runtime sent, with a nil error.
StdoutTextReturned ==
    \A p \in Callers :
        LogsRetrieved(p) /\ request[p].stderr = << >> =>
            /\ ret[p] = [out |-> request[p].stdout, err |-> NoErr]
            /\ ret[p].out = PayloadsOf(wire[p].frames, StdoutStream)

HelloReturned ==
    \E p \in Callers :
        /\ pc[p] = "done"
        /\ LogsRetrieved(p)
        /\ ret[p] = [out |-> Hello, err |-> NoErr]

\* C5: the poll loop ends exactly at the first inspect that reports a
\* non-zero completion timestamp: no log retrieval before one, no inspect
\* after one, and after an inspect reporting zero only another inspect.
PollLoopExit ==
    \A p \in Callers :
        /\ \A j \in CallsNamed(p, "logs") :
              \E i \in CallsNamed(p, "inspect") : i < j /\ calls[p][i].fin
        /\ \A i \in CallsNamed(p, "inspect") :
              /\ calls[p][i].fin =>
                    \A j \in CallsNamed(p, "inspect") : j <= i
              /\ calls[p][i].fin /\ i < Len(calls[p]) =>
                    calls[p][i + 1].call = "logs"
              /\ calls[p][i].ok /\ ~calls[p][i].fin /\ i < Len(calls[p]) =>
                    calls[p][i + 1].call = "inspect"
        /\ pc[p] = "logs" =>
              calls[p][Len(calls[p])].call = "inspect" /\ calls[p][Len(calls[p])].fin

PolledTwice ==
    \E p \in Callers :
        /\ Cardinality(CallsNamed(p, "inspect")) = 2
        /\ CallsNamed(p, "logs") # {}
        /\ \E i \in CallsNamed(p, "inspect") : ~calls[p][i].fin

\* C6: when a create, start, inspect or remove call of a Run failed, Run
\* returns a non-nil error.
LifecycleFailureSurfaced ==
    \A p \in Callers :
        (/\ pc[p] = "done"
         /\ \E i \in DOMAIN calls[p] :
                /\ calls[p][i].call \in {"create", "start", "inspect", "remove"}
                /\ ~calls[p][i].ok)
        => ret[p].err # NoErr

\* C7: for a stream of well-formed frames makeRequest yields as stdout the
\* payloads of the stdout frames in stream order and as stderr the payloads
\* of the stderr frames in stream order.
DemuxPreservesStreams ==
    \A p \in Callers :
        pc[p] = "demuxed" /\ WellFormed(wire[p]) =>
            /\ request[p].err = NoErr
            /\ request[p].stdout = PayloadsOf(wire[p].frames, StdoutStream)
            /\ request[p].stderr = PayloadsOf(wire[p].frames, StderrStream)

DemuxExample ==
    \E p \in Callers :
        /\ pc[p] = "demuxed"
        /\ wire[p].lost = 0
        /\ wire[p].frames = <<[stream |-> StdoutStream, payload |-> <<65>>],
                              [stream |-> StderrStream, payload |-> <<66>>],
                              [stream |-> StdoutStream, payload |-> <<67>>]>>
        /\ request[p].stdout = <<65, 67>>
        /\ request[p].stderr = <<66>>

\* the last frame's header arrived whole and its payload did not
PayloadTruncated(t) ==
    /\ Delivered(t)
    /\ t.frames # << >>
    /\ t.lost >= 1
    /\ t.lost <= Len(t.frames[Len(t.frames)].payload)

\* C8: when the stream ends inside the payload of its last frame,
\* makeRequest returns a decode error with empty buffers and Run returns
\* empty output with that error, not the text decoded so far.
TruncatedFrameFails ==
    \A p \in Callers :
        pc[p] \in {"remove", "done"} /\ CallsNamed(p, "logs") # {}
        /\ PayloadTruncated(wire[p]) =>
            /\ request[p].err = ErrShortFrame
            /\ request[p].stdout = << >>
            /\ request[p].stderr = << >>
            /\ ret[p] = [out |-> << >>, err |-> ErrShortFrame]

\* the third frame of the mixed script's log was cut short
TruncatedAfterOutput ==
    \E p \in Callers :
        /\ pc[p] = "done"
        /\ PayloadTruncated(wire[p])
        /\ Len(wire[p].frames) = 3
        /\ ret[p].err = ErrShortFrame

\* the transport of the log retrieval failed with connection refused
ConnectionRefused(t) ==
    \/ Contains(t.dialErr, "connection refused")
    \/ Contains(t.doErr, "connection refused")

\* C9: when the transport of the log retrieval fails with connection
\* refused, the error handed on is docker.ErrConnectionRefused.
RefusedClassified ==
    \A p \in Callers :
        pc[p] \in {"remove", "done"} /\ CallsNamed(p, "logs") # {}
        /\ ConnectionRefused(wire[p]) =>
            /\ request[p].err = ErrConnectionRefused
            /\ ret[p].err = ErrConnectionRefused

\* InitCmdContainer has been called
Configured == config # ZeroConfig

\* C10: after InitCmdContainer(opts) each of the four fields holds opts'
\* value for its key when opts has the key and the default otherwise
\* ("latest" for ContainerTag); no other key changes the configuration.
ConfigFollowsOptions ==
    Configured =>
        /\ DOMAIN config =
              {"CommandsDir", "DockerEndpoint", "ContainerRepository",
               "ContainerTag"}
        /\ config.CommandsDir =
              IF "CommandsDir" \in DOMAIN lastOpts
              THEN lastOpts.CommandsDir ELSE "/root/commands"
        /\ config.DockerEndpoint =
              IF "DockerEndpoint" \in DOMAIN lastOpts
              THEN lastOpts.DockerEndpoint ELSE "unix:///var/run/docker.sock"
        /\ config.ContainerRepository =
              IF "ContainerRepository" \in DOMAIN lastOpts
              THEN lastOpts.ContainerRepository ELSE "freighterio/cmd"
        /\ config.ContainerTag =
              IF "ContainerTag" \in DOMAIN lastOpts
              THEN lastOpts.ContainerTag ELSE "latest"

TagDefaulted ==
    /\ Configured
    /\ "ContainerTag" \notin DOMAIN lastOpts
    /\ "Verbose" \in DOMAIN lastOpts
    /\ "CommandsDir" \in DOMAIN lastOpts
    /\ config.ContainerTag = "latest"
    /\ config.CommandsDir = "/opt/cmds"

\* C11: when Run calls execute concurrently, each Run creates its own
\* instance and every start, inspect, log-retrieval and remove call it
\* makes carries the id its own create call returned; no two Runs in
\* progress hold the same instance.
OwnInstanceOnly ==
    /\ \A p \in Callers : \A i \in DOMAIN calls[p] :
          calls[p][i].call # "create" =>
              Created(p) /\ calls[p][i].id = calls[p][1].id
    /\ \A p, q \in Callers :
          p # q /\ Created(p) /\ Created(q) =>
              calls[p][1].id # calls[q][1].id

\* two Runs have gone through their calls side by side
TwoRunsSideBySide ==
    \E p, q \in Callers :
        /\ p # q
        /\ Created(p) /\ Created(q)
        /\ CallsNamed(p, "remove") # {} /\ pc[q] = "logs"
        /\ calls[p][1].id = 1 /\ calls[q][1].id = 2
        /\ CallsNamed(p, "start") # {} /\ CallsNamed(p, "inspect") # {}

\* Run of caller p holds a container it created and has not yet removed
Holding(p) ==
    Created(p) /\ pc[p] \in {"start", "inspect", "sleep", "logs", "remove"}

\* C12: the instance Run(args...) creates for operation op has the command
\* line "bash", CommandsDir/op.sh, then the arguments as given and in the
\* order given, and the image ContainerRepository:ContainerTag.
CommandLineVerbatim ==
    \A p \in Callers :
        Holding(p) =>
            LET c == containers[container[p]]
            IN  /\ Len(c.cmd) = 2 + Len(runArgs[p])
                /\ c.cmd[1] = "bash"
                /\ c.cmd[2] = config.CommandsDir \o "/" \o cmds[p].op \o ".sh"
                /\ \A i \in DOMAIN runArgs[p] : c.cmd[2 + i] = runArgs[p][i]
                /\ c.image =
                      config.ContainerRepository \o ":" \o config.ContainerTag

HelloWithArguments ==
    \E p \in Callers :
        /\ Holding(p)
        /\ containers[container[p]].cmd =
              <<"bash", "/root/commands/hello.sh", "b", "a">>
        /\ containers[container[p]].image = "freighterio/cmd:v2"

\* InitCmdContainer has returned to its caller: the process lives on
Initialized == Configured /\ process = "running"

\* C13: InitCmdContainer returns only with the client built for the
\* configured endpoint and the configured image pulled; a Run issues a
\* create call only through a client an InitCmdContainer built, and creates
\* only from a pulled image; when building the client or pulling fails the
\* process is gone and no runtime call follows.
InitBeforeCreate ==
    /\ [](Initialized =>
            /\ globalDockerClient.gen >= 1
            /\ globalDockerClient.endpoint = config.DockerEndpoint
            /\ ImageRef(config.ContainerRepository, config.ContainerTag)
                  \in images)
    /\ [](\A p \in Callers :
            /\ calls[p] # << >> => cmds[p].dockerClient.gen >= 1
            /\ Holding(p) => containers[container[p]].image \in images)
    /\ [][process # "running" => UNCHANGED <<calls, containers, pc>>]_vars

\* an InitCmdContainer after a successful one has failed to pull
SecondInitFailed ==
    /\ process = "fatal"
    /\ globalDockerClient.gen = 2
    /\ images # {}
    /\ ImageRef(config.ContainerRepository, config.ContainerTag) \notin images

\* C14: the runtime calls of a Run come in the order create, start,
\* inspects, log retrieval, remove: start only after a successful create,
\* an inspect only after a successful start or an inspect reporting zero,
\* log retrieval only after an inspect reporting completion, remove last;
\* after a failed step only remove follows.
CallOrder ==
    \A p \in Callers :
        LET cs == calls[p]
        IN  /\ cs # << >> => cs[1].call = "create"
            /\ \A i \in 2..Len(cs) :
                  LET a == cs[i - 1]
                      b == cs[i]
                  IN  /\ b.call # "create"
                      /\ a.call # "remove"
                      /\ ~a.ok => b.call = "remove"
                      /\ b.call = "start" => a.call = "create" /\ a.ok
                      /\ b.call = "inspect" =>
                            \/ a.call = "start" /\ a.ok
                            \/ a.call = "inspect" /\ a.ok /\ ~a.fin
                      /\ b.call = "logs" => a.call = "inspect" /\ a.fin
                      /\ b.call = "remove" =>
                            \/ a.call \in {"start", "inspect"} /\ ~a.ok
                            \/ a.call = "logs"
            /\ pc[p] = "done" /\ Created(p) => cs[Len(cs)].call = "remove"

\* a Run went through all five kinds of call, polling twice
FullLifecycle ==
    \E p \in Callers :
        /\ pc[p] = "done"
        /\ Len(calls[p]) = 6
        /\ [i \in 1..6 |-> calls[p][i].call] =
              <<"create", "start", "inspect", "inspect", "logs", "remove">>

\* the result of caller p's Run is settled
Settled(p) == Created(p) /\ pc[p] \in {"remove", "done"}

\* the call named name of caller p's Run failed
Failed(p, name) == \E i \in CallsNamed(p, name) : ~calls[p][i].ok

\* C15: when start, an inspect, the log transport or the demultiplexer
\* fails, Run returns the error of that step as it is; any other error Run
\* returns after a successful create is ErrCommandResponse, returned only
\* when the log retrieval succeeded with a non-empty stderr buffer.
ErrorsUnmasked ==
    \A p \in Callers :
        Settled(p) =>
            LET t == wire[p]
                read == CallsNamed(p, "logs") # {}
                decode == stdCopy(t.body).err
            IN  /\ Failed(p, "start") => ret[p].err = ErrStart
                /\ Failed(p, "inspect") => ret[p].err = ErrInspect
                /\ read /\ t.dialErr # NoErr => ret[p].err = t.dialErr
                /\ read /\ t.doErr # NoErr => ret[p].err = t.doErr
                /\ read /\ Delivered(t) /\ decode # NoErr =>
                      ret[p].err = decode
                /\ ret[p].err = ErrCommandResponse =>
                      /\ read /\ Delivered(t) /\ decode = NoErr
                      /\ PayloadsOf(t.frames, StderrStream) # << >>
                /\ ret[p].err \in
                      {NoErr, ErrStart, ErrInspect, t.dialErr, t.doErr,
                       decode, ErrCommandResponse}

\* the dial of the log retrieval found no socket
DialErrorReturned ==
    \E p \in Callers :
        /\ pc[p] = "done"
        /\ wire[p].dialErr = ErrDialNoSocket
        /\ ret[p].err = ErrDialNoSocket

\* caller p's Run is in its poll loop
Polling(p) == pc[p] \in {"inspect", "sleep"}

\* an inspect of caller p's Run failed or reported a non-zero timestamp
PollEnded(p) ==
    \E i \in Inspects(p) : ~calls[p][i].ok \/ calls[p][i].fin

\* caller p's Run has returned after issuing the remove of its instance
Returned(p) ==
    /\ pc[p] = "done"
    /\ calls[p] # << >>
    /\ calls[p][Len(calls[p])].call = "remove"

\* C16: a Run whose create and start succeeded is past its poll loop only
\* if an inspect failed or reported a non-zero completion timestamp, and a
\* step leaves the loop only on such an inspect, whatever the number of
\* rounds; while it polls its instance is not removed; and once an inspect
\* failed or reported completion, or the timestamp is non-zero, the Run
\* eventually returns after issuing the remove.
PollUnbounded ==
    /\ [](\A p \in Callers :
            /\ Created(p) /\ pc[p] \in {"logs", "remove", "done"}
                    /\ ~Failed(p, "start")
                => PollEnded(p)
            /\ Polling(p) =>
                    /\ ~PollEnded(p)
                    /\ containers[container[p]].state = "running")
    /\ [][\A p \in Callers :
            Polling(p) /\ ~Polling(p)' =>
                LET c == calls'[p][Len(calls'[p])]
                IN  c.call = "inspect" /\ (~c.ok \/ c.fin)]_vars
    /\ \A p \in Callers :
            /\ (Created(p) /\ PollEnded(p)) ~> Returned(p)
            /\ (Polling(p) /\ containers[container[p]].finishedAt # NilTime)
                    ~> Returned(p)

\* a Run returned on a failed inspect after waiting on a zero timestamp
PollFailedAfterWaiting ==
    \E p \in Callers :
        /\ Returned(p)
        /\ slept[p] # 0
        /\ Failed(p, "inspect")
        /\ containers[container[p]].finishedAt = NilTime

\* C17: no step of a Run changes the configuration or the global client,
\* whatever the interleaving of the callers; a step that changes one of
\* them is an InitCmdContainer, which touches no Run and makes a new
\* client; so both keep the values the last InitCmdContainer set.
RunLeavesGlobals ==
    /\ [][(\E p \in Callers : pc'[p] # pc[p]) \/ process' = "panic"
            => UNCHANGED <<config, globalDockerClient, lastOpts>>]_vars
    /\ [][~UNCHANGED <<config, globalDockerClient>> =>
            /\ UNCHANGED <<pc, calls, cmds, containers, ret>>
            /\ config' = ConfigFromOpts(lastOpts')
            /\ globalDockerClient' # globalDockerClient =>
                    globalDockerClient' =
                        NewClient(globalDockerClient.gen + 1,
                                  config'.DockerEndpoint)]_vars
    /\ [](Configured =>
            /\ config = ConfigFromOpts(lastOpts)
            /\ globalDockerClient.gen >= 1 /\ process # "fatal" =>
                    globalDockerClient.endpoint = config.DockerEndpoint)

\* every caller's Run has returned and the globals are those of the one
\* InitCmdContainer
GlobalsKeptAcrossRuns ==
    /\ \A p \in Callers : Returned(p)
    /\ config = ConfigFromOpts(NoOpts)
    /\ globalDockerClient = NewClient(1, config.DockerEndpoint)

\* C18: between two consecutive inspects of the poll loop Run sleeps for
\* about 100 ms: the duration passed to time.Sleep, in nanoseconds, is
\* within a tenth of 100 * Millisecond.
SleepAboutHundredMs ==
    \A p \in Callers :
        slept[p] # 0 =>
            /\ slept[p] >= 90 * Millisecond
            /\ slept[p] <= 110 * Millisecond

\* C19: a Cmd keeps the client that was the global client when NewCmd
\* built it (the nil client before any InitCmdContainer): every runtime
\* call of its Runs goes through that client, and an InitCmdContainer that
\* replaces the global client leaves every Cmd as it is; the commands
\* directory, repository and tag of a Run are those of the most recent
\* InitCmdContainer.
ClientBoundConfigRead ==
    /\ [](\A p \in Callers :
            /\ \A i \in DOMAIN calls[p] :
                    /\ calls[p][i].client = cmds[p].dockerClient
                    /\ calls[p][i].client # NilClient
            /\ Holding(p) =>
                    LET c == containers[container[p]]
                        last == ConfigFromOpts(lastOpts)
                    IN  /\ c.cmd[2] =
                              last.CommandsDir \o "/" \o cmds[p].op \o ".sh"
                        /\ c.image =
                              ImageRef(last.ContainerRepository,
                                       last.ContainerTag))
    /\ [][\A p \in Callers :
            cmds'[p] # cmds[p] =>
                /\ cmds'[p].dockerClient = globalDockerClient
                /\ UNCHANGED globalDockerClient]_vars
    /\ [][globalDockerClient' # globalDockerClient => UNCHANGED cmds]_vars
    /\ [][process = "running" /\ process' = "panic" =>
            \E p \in Callers :
                cmds[p].built /\ cmds[p].dockerClient = NilClient]_vars

\* a Run of a Cmd built before the second InitCmdContainer: its calls go
\* through the first client, its instance is of the second image
OldClientNewConfig ==
    \E p \in Callers :
        /\ Holding(p)
        /\ globalDockerClient.gen = 2
        /\ cmds[p].dockerClient.gen = 1
        /\ calls[p][1].client.gen = 1
        /\ Cardinality(images) = 2
        /\ containers[container[p]].image =
              ImageRef(config.ContainerRepository, config.ContainerTag)

====
